---- MODULE Spec2Model ----
(***************************************************************************)
(* Model of the final iteration of the panda desk-pet game (src/new.go):   *)
(* the Game struct, NewGame/LoadData, the per-frame Update with its mode   *)
(* handlers (focus timer, fishing, chase maze, settings), Draw's indexing  *)
(* and process exit.                                                       *)
(*                                                                         *)
(* Conventions                                                             *)
(*   - time is counted in whole seconds (time.Time, time.Duration);        *)
(*   - float64 reel values are counted in tenths (ReelProgress 30.0 is     *)
(*     300), KissProgress in hundredths;                                   *)
(*   - a Go run-time panic (index out of range, division by zero) sets     *)
(*     the field panic of the game record and stops the program;           *)
(*   - the chiptune prototype (src/unnamed/part_000) has its own section   *)
(*     at the end: there g is that prototype's Game, pc holds the place    *)
(*     of the update/draw loop and of the audio goroutine, and budget      *)
(*     counts the audio samples still explored.                            *)
(***************************************************************************)
EXTENDS Integers, Sequences, FiniteSets, TLC

VARIABLES
    g,            \* the *Game value built by NewGame (struct Game)
    disk,         \* the two persisted files, settings.json and panda_stats.json
    now,          \* wall clock (time.Now()), in seconds
    today,        \* time.Now().Format("2006-01-02")
    pc,           \* "start" before NewGame, "running" inside RunGame, "exited"
    justPressed,  \* keys for which inpututil.IsKeyJustPressed held in the last tick
    budget        \* frames the model still explores from its initial state

vars == <<g, disk, now, today, pc, justPressed, budget>>

(***************************************************************************)
(* Bounds of the model.                                                    *)
(***************************************************************************)
MaxSteps == 2        \* frames explored after every initial state
MaxChord == 2        \* keys that can go down in one and the same tick
MaxFrames == 3       \* frames of the chiptune prototype that are explored
MaxSamples == 12     \* audio samples the chiptune prototype's Read produces

(***************************************************************************)
(* Program constants.                                                      *)
(***************************************************************************)
ModeDirectory == 0
ModeRelax == 1
ModeFocus == 2
ModeFishing == 3
ModePacman == 4
ModeSettings == 5

MapRows == 15
MapCols == 20
LayoutRows == 11
WinScore == 80
BaseDelay == 30
MinDelay == 5
SaveInterval == 10
StatsPeriod == 60
StartMinutes == 25
MinuteStep == 5
SecondsPerMinute == 60
SpotPeriod == 120
BiteProgress == 300
ReelGain == 80
ReelFull == 1000
KissFull == 100

Wall == 1
Dot == 2

Abs(n) == IF n < 0 THEN -n ELSE n

(***************************************************************************)
(* The maze literal of InitPacman, rows 0..10 (1 wall, 2 dot, 0 empty).    *)
(***************************************************************************)
layout ==
    << <<1,1,1,1,1,1,1,1,1,1,1,1,1,1,1,1,1,1,1,1>>,
       <<1,2,2,2,2,2,1,2,2,2,2,2,2,1,2,2,2,2,2,1>>,
       <<1,2,1,1,1,2,1,2,1,1,1,1,2,1,2,1,1,1,2,1>>,
       <<1,2,1,2,2,2,2,2,2,2,2,2,2,2,2,2,2,1,2,1>>,
       <<1,2,1,2,1,1,1,2,1,1,1,1,2,1,1,1,2,1,2,1>>,
       <<1,2,2,2,2,2,2,2,2,0,0,2,2,2,2,2,2,2,2,1>>,
       <<1,2,1,2,1,1,1,2,1,1,1,1,2,1,1,1,2,1,2,1>>,
       <<1,2,1,2,2,2,2,2,2,2,2,2,2,2,2,2,2,1,2,1>>,
       <<1,2,1,1,1,2,1,2,1,1,1,1,2,1,2,1,1,1,2,1>>,
       <<1,2,2,2,2,2,1,2,2,2,2,2,2,1,2,2,2,2,2,1>>,
       <<1,1,1,1,1,1,1,1,1,1,1,1,1,1,1,1,1,1,1,1>> >>

\* The zero value of [15][20]int.
ZeroMap == [y \in 0..(MapRows - 1) |-> [x \in 0..(MapCols - 1) |-> 0]]

\* Go's bounds check on Map[y][x].
InGrid(x, y) == x \in 0..(MapCols - 1) /\ y \in 0..(MapRows - 1)

(***************************************************************************)
(* InitPacman: copy the layout into rows 0..10 (rows 11..14 keep what they *)
(* hold), place the actors, clear the round, scale the ghost's cooldown.   *)
(***************************************************************************)
\* Variant of scaledDelay that forgets the floor of MinDelay frames.
scaledDelayNoFloor(wins) == BaseDelay - (wins * 2)

\* The ghost's cooldown for a round started after `wins` wins today.
scaledDelay(wins) ==
    IF BaseDelay - (wins * 2) < MinDelay THEN MinDelay ELSE BaseDelay - (wins * 2)

InitPacman(G) ==
    LET delay == scaledDelay(G.Stats.PacmanWinsToday)
    IN [G EXCEPT
          !.Pacman.Map = [y \in 0..(MapRows - 1) |->
                            IF y < LayoutRows
                            THEN [x \in 0..(MapCols - 1) |-> layout[y + 1][x + 1]]
                            ELSE G.Pacman.Map[y]],
          !.Pacman.PlayerX = 1, !.Pacman.PlayerY = 1,
          !.Pacman.GhostX = 10, !.Pacman.GhostY = 5,
          !.Pacman.Score = 0, !.Pacman.GameOver = FALSE, !.Pacman.Win = FALSE,
          !.Pacman.GhostSpeedDelay = delay]

\* Variant of playerMayEnter that forgets the wall test.
playerMayEnterAny(M, nx, ny) == TRUE

\* movePlayer's test of the target cell.
playerMayEnter(M, nx, ny) == M[ny][nx] # Wall

\* Variant of reachedWin that fires one dot late.
reachedWinLate(score) == score > WinScore

\* movePlayer's win test.
reachedWin(score) == score >= WinScore

(***************************************************************************)
(* movePlayer(dx, dy): step unless the target is a wall; eat a dot.        *)
(***************************************************************************)
movePlayer(G, dx, dy) ==
    LET P  == G.Pacman
        nx == P.PlayerX + dx
        ny == P.PlayerY + dy
    IN IF G.panic THEN G
       ELSE IF ~InGrid(nx, ny) THEN [G EXCEPT !.panic = TRUE]
       ELSE IF playerMayEnter(P.Map, nx, ny)
       THEN LET G1 == [G EXCEPT !.Pacman.PlayerX = nx, !.Pacman.PlayerY = ny]
            IN IF P.Map[ny][nx] = Dot
               THEN LET G2 == [G1 EXCEPT !.Pacman.Map[ny][nx] = 0,
                                         !.Pacman.Score = @ + 1]
                    IN IF reachedWin(G2.Pacman.Score)
                       THEN [G2 EXCEPT !.Pacman.Win = TRUE,
                                       !.Stats.PacmanWinsToday = @ + 1]
                       ELSE G2
               ELSE G1
       ELSE G

\* The four arrow tests of updatePacman, in the order of the code.
movePlayers(G, keys) ==
    LET G1 == IF "Left"  \in keys THEN movePlayer(G, -1, 0) ELSE G
        G2 == IF "Right" \in keys THEN movePlayer(G1, 1, 0) ELSE G1
        G3 == IF "Up"    \in keys THEN movePlayer(G2, 0, -1) ELSE G2
        G4 == IF "Down"  \in keys THEN movePlayer(G3, 0, 1) ELSE G3
    IN G4

\* Variant of ghostDir that goes sideways when the two offsets are equal.
ghostDirTieSideways(dx, dy) ==
    IF Abs(dx) >= Abs(dy)
    THEN IF dx > 0 THEN <<1, 0>> ELSE <<-1, 0>>
    ELSE IF dy > 0 THEN <<0, 1>> ELSE <<0, -1>>

\* The ghost's chosen direction <<mx, my>> for the offsets dx, dy to the player.
ghostDir(dx, dy) ==
    IF Abs(dx) > Abs(dy)
    THEN IF dx > 0 THEN <<1, 0>> ELSE <<-1, 0>>
    ELSE IF dy > 0 THEN <<0, 1>> ELSE <<0, -1>>

\* Variant of ghostMayEnter that forgets the wall test.
ghostMayEnterAny(M, tx, ty) == TRUE

\* The ghost's test of the cell it wants to enter.
ghostMayEnter(M, tx, ty) == M[ty][tx] # Wall

\* Variant of ghostStep in which the ghost eats the dot of the cell it enters.
ghostStepEatsDot(G) ==
    LET P   == G.Pacman
        t   == P.GhostMoveTimer + 1
        dir == ghostDir(P.PlayerX - P.GhostX, P.PlayerY - P.GhostY)
        tx  == P.GhostX + dir[1]
        ty  == P.GhostY + dir[2]
    IN IF G.panic THEN G
       ELSE IF t > P.GhostSpeedDelay
       THEN IF ~InGrid(tx, ty) THEN [G EXCEPT !.panic = TRUE]
            ELSE IF ghostMayEnter(P.Map, tx, ty)
            THEN [G EXCEPT !.Pacman.GhostMoveTimer = 0,
                           !.Pacman.GhostX = tx, !.Pacman.GhostY = ty,
                           !.Pacman.Map[ty][tx] = 0]
            ELSE [G EXCEPT !.Pacman.GhostMoveTimer = 0]
       ELSE [G EXCEPT !.Pacman.GhostMoveTimer = t]

\* The ghost part of updatePacman: cooldown, one greedy step, blocked by walls.
ghostStep(G) ==
    LET P   == G.Pacman
        t   == P.GhostMoveTimer + 1
        dir == ghostDir(P.PlayerX - P.GhostX, P.PlayerY - P.GhostY)
        tx  == P.GhostX + dir[1]
        ty  == P.GhostY + dir[2]
    IN IF G.panic THEN G
       ELSE IF t > P.GhostSpeedDelay
       THEN IF ~InGrid(tx, ty) THEN [G EXCEPT !.panic = TRUE]
            ELSE IF ghostMayEnter(P.Map, tx, ty)
            THEN [G EXCEPT !.Pacman.GhostMoveTimer = 0,
                           !.Pacman.GhostX = tx, !.Pacman.GhostY = ty]
            ELSE [G EXCEPT !.Pacman.GhostMoveTimer = 0]
       ELSE [G EXCEPT !.Pacman.GhostMoveTimer = t]

\* The collision test that ends updatePacman.
collide(G) ==
    IF ~G.panic /\ G.Pacman.PlayerX = G.Pacman.GhostX
                /\ G.Pacman.PlayerY = G.Pacman.GhostY
    THEN [G EXCEPT !.Pacman.GameOver = TRUE]
    ELSE G

\* Variant of updatePacman that keeps playing an ended round.
updatePacmanKeepsRunning(G, keys) ==
    IF (G.Pacman.GameOver \/ G.Pacman.Win) /\ "Space" \in keys
    THEN InitPacman(G)
    ELSE collide(ghostStep(movePlayers(G, keys)))

\* updatePacman: an ended round waits for Space; a live one moves the player,
\* then the ghost, then tests the collision.
updatePacman(G, keys) ==
    IF G.Pacman.GameOver \/ G.Pacman.Win
    THEN IF "Space" \in keys THEN InitPacman(G) ELSE G
    ELSE collide(ghostStep(movePlayers(G, keys)))

(***************************************************************************)
(* updateFishing.  in.spot is rand.Intn(3)+1, in.bite is rand.Intn(100)<2, *)
(* in.strength is 0.5+rand.Float64() in tenths.                            *)
(***************************************************************************)
castTarget(keys) ==
    IF "D" \in keys THEN 3
    ELSE IF "S" \in keys THEN 2
    ELSE IF "A" \in keys THEN 1
    ELSE 0

\* Variant of biteAllowed that lets a fish bite at any spot.
biteAllowedAnywhere(F, roll) == roll

\* The bite test of the Waiting state: the cast spot is the hot spot and the
\* 2-in-100 roll succeeded.
biteAllowed(F, roll) == F.ActiveSpot = F.TargetSpot /\ roll

\* Variant of landFish that forgets the lifetime counter.
landFishUnrecorded(G) ==
    [G EXCEPT !.Fishing.Score = @ + 1, !.Fishing.State = 0]

\* The catch: both counters go up by one and the line is idle again.
landFish(G) ==
    [G EXCEPT !.Fishing.Score = @ + 1, !.Stats.FishCaught = @ + 1,
              !.Fishing.State = 0]

\* Variant of lineBroken that leaves the line in the water.
lineBrokenKeepsWaiting(G) == [G EXCEPT !.Fishing.State = 1]

\* The fish got away: back to idle.
lineBroken(G) == [G EXCEPT !.Fishing.State = 0]

updateFishing(G, in) ==
    LET w  == G.Fishing.WaitTimer + 1
        G1 == IF w > SpotPeriod
              THEN [G EXCEPT !.Fishing.WaitTimer = 0, !.Fishing.TargetSpot = in.spot]
              ELSE [G EXCEPT !.Fishing.WaitTimer = w]
        F  == G1.Fishing
        target == castTarget(in.keys)
    IN CASE F.State = 0 ->
              IF target > 0
              THEN [G1 EXCEPT !.Fishing.ActiveSpot = target, !.Fishing.State = 1,
                              !.Fishing.BobberY = 180,
                              !.Fishing.BobberX = 80 * target]
              ELSE G1
         [] F.State = 1 ->
              LET G2 == IF biteAllowed(F, in.bite)
                        THEN [G1 EXCEPT !.Fishing.State = 2,
                                        !.Fishing.ReelProgress = BiteProgress,
                                        !.Fishing.FishStrength = in.strength]
                        ELSE G1
              IN IF "Space" \in in.keys THEN [G2 EXCEPT !.Fishing.State = 0] ELSE G2
         [] F.State = 2 ->
              LET r1 == F.ReelProgress - F.FishStrength
                  r2 == IF "Space" \in in.keys THEN r1 + ReelGain ELSE r1
                  G2 == [G1 EXCEPT !.Fishing.ReelProgress = r2]
                  G3 == IF r2 >= ReelFull THEN landFish(G2) ELSE G2
              IN IF r2 <= 0 THEN lineBroken(G3) ELSE G3
         [] OTHER -> G1

\* Variant of lowerMinutes without the floor.
lowerMinutesUnclamped(m) == m - MinuteStep

\* The Down key: five minutes less, never below five.
lowerMinutes(m) == IF m - MinuteStep < MinuteStep THEN MinuteStep ELSE m - MinuteStep

(***************************************************************************)
(* updateFocus at time t (every time.Now() of one update reads t).         *)
(***************************************************************************)
\* Variant of tickTimer that forgets to restart the stopwatch.
tickTimerKeepsLastTick(G, t) ==
    [G EXCEPT !.Timer.TimeLeft = @ - (t - G.Timer.LastTick)]

\* TimeLeft -= time.Since(LastTick); LastTick = time.Now()
tickTimer(G, t) ==
    [G EXCEPT !.Timer.TimeLeft = @ - (t - G.Timer.LastTick), !.Timer.LastTick = t]

\* Variant of expire that leaves the overshoot in TimeLeft.
expireUnclamped(G) == [G EXCEPT !.Timer.GopherState = 2]

\* The countdown ran out: clamp and show the finished screen.
expire(G) == [G EXCEPT !.Timer.TimeLeft = 0, !.Timer.GopherState = 2]

\* Variant of updateFocus whose finished screen does not return: the Space that
\* dismisses it goes on into the idle branch and starts the next countdown.
updateFocusFallsThrough(G, keys, t) ==
    IF G.Timer.GopherState = 2
    THEN LET G1 == IF G.Timer.KissProgress < KissFull
                   THEN [G EXCEPT !.Timer.KissProgress = @ + 1] ELSE G
             G2 == IF "3" \in keys
                   THEN [G1 EXCEPT !.Timer.GopherState = 0, !.Timer.Active = FALSE,
                                   !.Mode = ModeFishing]
                   ELSE G1
             G3 == IF "4" \in keys
                   THEN InitPacman([G2 EXCEPT !.Timer.GopherState = 0,
                                              !.Timer.Active = FALSE,
                                              !.Mode = ModePacman])
                   ELSE G2
         IN IF "Space" \in keys
            THEN [G3 EXCEPT !.Timer.GopherState = 0, !.Timer.Active = TRUE,
                            !.Timer.TimeLeft = G3.Timer.TargetMinutes * SecondsPerMinute,
                            !.Timer.LastTick = t, !.Timer.KissProgress = 0]
            ELSE G3
    ELSE IF ~G.Timer.Active
    THEN LET G1 == IF "Up" \in keys
                   THEN [G EXCEPT !.Timer.TargetMinutes = @ + MinuteStep] ELSE G
             G2 == IF "Down" \in keys
                   THEN [G1 EXCEPT !.Timer.TargetMinutes = lowerMinutes(@)]
                   ELSE G1
             G3 == [G2 EXCEPT !.Timer.TimeLeft =
                                  G2.Timer.TargetMinutes * SecondsPerMinute]
         IN IF "Space" \in keys
            THEN [G3 EXCEPT !.Timer.Active = TRUE, !.Timer.LastTick = t,
                            !.Timer.GopherState = 0, !.Timer.KissProgress = 0]
            ELSE G3
    ELSE LET G1       == tickTimer(G, t)
             left     == G1.Timer.TimeLeft
             totalDur == G.Timer.TargetMinutes * SecondsPerMinute
             G2 == IF 10 * left <= totalDur
                   THEN [G1 EXCEPT !.Timer.GopherState = 1] ELSE G1
         IN IF left <= 0 THEN expire(G2) ELSE G2

\* updateFocus: the finished screen, the idle timer, the countdown.
updateFocus(G, keys, t) ==
    IF G.Timer.GopherState = 2
    THEN LET G1 == IF G.Timer.KissProgress < KissFull
                   THEN [G EXCEPT !.Timer.KissProgress = @ + 1] ELSE G
             G2 == IF "3" \in keys
                   THEN [G1 EXCEPT !.Timer.GopherState = 0, !.Timer.Active = FALSE,
                                   !.Mode = ModeFishing]
                   ELSE G1
             G3 == IF "4" \in keys
                   THEN InitPacman([G2 EXCEPT !.Timer.GopherState = 0,
                                              !.Timer.Active = FALSE,
                                              !.Mode = ModePacman])
                   ELSE G2
         IN IF "Space" \in keys
            THEN [G3 EXCEPT !.Timer.GopherState = 0, !.Timer.Active = FALSE]
            ELSE G3
    ELSE IF ~G.Timer.Active
    THEN LET G1 == IF "Up" \in keys
                   THEN [G EXCEPT !.Timer.TargetMinutes = @ + MinuteStep] ELSE G
             G2 == IF "Down" \in keys
                   THEN [G1 EXCEPT !.Timer.TargetMinutes = lowerMinutes(@)]
                   ELSE G1
             G3 == [G2 EXCEPT !.Timer.TimeLeft =
                                  G2.Timer.TargetMinutes * SecondsPerMinute]
         IN IF "Space" \in keys
            THEN [G3 EXCEPT !.Timer.Active = TRUE, !.Timer.LastTick = t,
                            !.Timer.GopherState = 0, !.Timer.KissProgress = 0]
            ELSE G3
    ELSE LET G1       == tickTimer(G, t)
             left     == G1.Timer.TimeLeft
             totalDur == G.Timer.TargetMinutes * SecondsPerMinute
             G2 == IF 10 * left <= totalDur
                   THEN [G1 EXCEPT !.Timer.GopherState = 1] ELSE G1
         IN IF left <= 0 THEN expire(G2) ELSE G2

(***************************************************************************)
(* Persistence.  A file is [kind |-> "missing"], [kind |-> "corrupt"] (not *)
(* JSON) or [kind |-> "json", doc |-> d] with d a function from the JSON   *)
(* names it holds to their values.                                         *)
(***************************************************************************)
Missing == [kind |-> "missing"]
Corrupt == [kind |-> "corrupt"]
Json(d) == [kind |-> "json", doc |-> d]

\* The json tags of GameStats and AppSettings: (Go field, JSON name).
StatsTags ==
    { <<"TotalPlayTimeSec", "total_play_time">>,
      <<"TodayPlayTimeSec", "today_play_time">>,
      <<"LastLoginDate", "last_login_date">>,
      <<"FishCaught", "fish_caught">>,
      <<"PacmanWinsToday", "pacman_wins_today">> }

SettingsTags ==
    { <<"ActiveIndex", "active_profile_index">>, <<"Profiles", "profiles">> }

TagOf(tags, field) == (CHOOSE t \in tags : t[1] = field)[2]

\* json.MarshalIndent of a struct: every tagged field, under its JSON name.
Marshal(tags, v) ==
    [name \in {t[2] : t \in tags} |-> v[(CHOOSE t \in tags : t[2] = name)[1]]]

\* Variant of Unmarshal that looks for the Go field names, as if the struct
\* carried no json tags.
UnmarshalUntagged(tags, file, v) ==
    IF file.kind # "json" THEN v
    ELSE [field \in DOMAIN v |->
            IF field \in DOMAIN file.doc THEN file.doc[field] ELSE v[field]]

\* json.Unmarshal into *v: a field is overwritten when the document names it.
Unmarshal(tags, file, v) ==
    IF file.kind # "json" THEN v
    ELSE [field \in DOMAIN v |->
            IF \E t \in tags : t[1] = field /\ t[2] \in DOMAIN file.doc
            THEN file.doc[TagOf(tags, field)]
            ELSE v[field]]

SaveSettings(G, D) == [D EXCEPT !.settings = Json(Marshal(SettingsTags, G.Settings))]

SaveStats(G, D) == [D EXCEPT !.stats = Json(Marshal(StatsTags, G.Stats))]

\* ParseHex on the strings the profiles hold: <<R, G, B, A>>.
ParseHex(s) ==
    CASE s = "#2d2d2d" -> <<45, 45, 45, 255>>
      [] s = "#ff6b6b" -> <<255, 107, 107, 255>>
      [] s = "#fdf6e3" -> <<253, 246, 227, 255>>
      [] s = "#2aa198" -> <<42, 161, 152, 255>>
      [] s = "#00ff00" -> <<0, 255, 0, 255>>
      [] OTHER -> <<0, 0, 0, 255>>

\* ApplyProfile: a bad index reads profile 0; with no profile the read panics.
ApplyProfile(G) ==
    LET i   == G.Settings.ActiveIndex
        n   == Len(G.Settings.Profiles)
        idx == IF i < 0 \/ i >= n THEN 0 ELSE i
    IN IF G.panic THEN G
       ELSE IF idx >= n THEN [G EXCEPT !.panic = TRUE]
       ELSE [G EXCEPT !.BgColor = ParseHex(G.Settings.Profiles[idx + 1].BgHex),
                      !.AccentColor = ParseHex(G.Settings.Profiles[idx + 1].AccentHex)]

DefaultProfiles ==
    << [Name |-> "Retro",  BgHex |-> "#2d2d2d", AccentHex |-> "#ff6b6b"],
       [Name |-> "Light",  BgHex |-> "#fdf6e3", AccentHex |-> "#2aa198"],
       [Name |-> "Matrix", BgHex |-> "#000000", AccentHex |-> "#00ff00"] >>

DefaultSettings == [ActiveIndex |-> 0, Profiles |-> DefaultProfiles]

\* Variant of resetDaily that clears the lifetime counters too.
resetDailyAll(st, date) ==
    [st EXCEPT !.TodayPlayTimeSec = 0, !.PacmanWinsToday = 0, !.LastLoginDate = date,
               !.TotalPlayTimeSec = 0, !.FishCaught = 0]

\* The body of LoadData's date test.
resetDaily(st, date) ==
    [st EXCEPT !.TodayPlayTimeSec = 0, !.PacmanWinsToday = 0, !.LastLoginDate = date]

(***************************************************************************)
(* LoadData on the day `date`: result [g, disk].                           *)
(***************************************************************************)
LoadData(G, D, date) ==
    LET st == IF D.stats.kind # "missing"
              THEN Unmarshal(StatsTags, D.stats, G.Stats) ELSE G.Stats
        s2 == IF st.LastLoginDate # date
              THEN resetDaily(st, date)
              ELSE st
        G1 == [G EXCEPT !.Stats = s2]
        G2 == IF D.settings.kind # "missing"
              THEN [G1 EXCEPT !.Settings = Unmarshal(SettingsTags, D.settings, @)]
              ELSE [G1 EXCEPT !.Settings = DefaultSettings]
        D2 == IF D.settings.kind # "missing" THEN D ELSE SaveSettings(G2, D)
    IN [g |-> ApplyProfile(G2), disk |-> D2]

\* The zero value of Game with the fields NewGame's literal sets, at time t.
ZeroGame(t) ==
    [Mode |-> ModeDirectory, Tick |-> 0, LastSave |-> t,
     Stats |-> [TotalPlayTimeSec |-> 0, TodayPlayTimeSec |-> 0, LastLoginDate |-> "",
                FishCaught |-> 0, PacmanWinsToday |-> 0],
     Settings |-> [ActiveIndex |-> 0, Profiles |-> << >>],
     BgColor |-> <<0, 0, 0, 0>>, AccentColor |-> <<0, 0, 0, 0>>,
     Timer |-> [Active |-> FALSE, TargetMinutes |-> StartMinutes,
                TimeLeft |-> StartMinutes * SecondsPerMinute, LastTick |-> 0,
                GopherState |-> 0, KissProgress |-> 0],
     Fishing |-> [State |-> 0, ActiveSpot |-> 0, TargetSpot |-> 0, BobberX |-> 0,
                  BobberY |-> 0, ReelProgress |-> 0, FishStrength |-> 0,
                  Score |-> 0, WaitTimer |-> 0],
     Pacman |-> [Map |-> ZeroMap, PlayerX |-> 0, PlayerY |-> 0, GhostX |-> 0,
                 GhostY |-> 0, GhostMoveTimer |-> 0, GhostSpeedDelay |-> 0,
                 Score |-> 0, GameOver |-> FALSE, Win |-> FALSE],
     panic |-> FALSE]

\* NewGame: the literal, LoadData, then InitPacman (not reached after a panic).
NewGame(D, t, date) ==
    LET l == LoadData(ZeroGame(t), D, date)
    IN [g |-> IF l.g.panic THEN l.g ELSE InitPacman(l.g), disk |-> l.disk]

(***************************************************************************)
(* Update, one tick at time t.  in = [keys, spot, bite, strength]: the     *)
(* keys just pressed in this tick and the values math/rand returns.        *)
(* Result [g, disk].                                                       *)
(***************************************************************************)
\* Go's % truncates toward zero.
GoRem(a, b) == IF a >= 0 THEN a % b ELSE -((-a) % b)

\* Variant of directoryKeys in which [3] selects the timer, as [2] does.
directoryKeysThreeIsTwo(G, keys) ==
    LET G1 == IF "1" \in keys THEN [G EXCEPT !.Mode = ModeRelax] ELSE G
        G2 == IF "2" \in keys THEN [G1 EXCEPT !.Mode = ModeFocus] ELSE G1
        G3 == IF "3" \in keys THEN [G2 EXCEPT !.Mode = ModeFocus] ELSE G2
        G4 == IF "4" \in keys THEN InitPacman([G3 EXCEPT !.Mode = ModePacman]) ELSE G3
    IN IF "S" \in keys THEN [G4 EXCEPT !.Mode = ModeSettings] ELSE G4

directoryKeys(G, keys) ==
    LET G1 == IF "1" \in keys THEN [G EXCEPT !.Mode = ModeRelax] ELSE G
        G2 == IF "2" \in keys THEN [G1 EXCEPT !.Mode = ModeFocus] ELSE G1
        G3 == IF "3" \in keys THEN [G2 EXCEPT !.Mode = ModeFishing] ELSE G2
        G4 == IF "4" \in keys THEN InitPacman([G3 EXCEPT !.Mode = ModePacman]) ELSE G3
    IN IF "S" \in keys THEN [G4 EXCEPT !.Mode = ModeSettings] ELSE G4

settingsKeys(G, D, keys) ==
    LET n  == Len(G.Settings.Profiles)
        G1 == IF "Right" \in keys
              THEN IF n = 0 THEN [G EXCEPT !.panic = TRUE]
                   ELSE [G EXCEPT !.Settings.ActiveIndex = GoRem(@ + 1, n)]
              ELSE G
        G2 == IF "Left" \in keys /\ ~G1.panic
              THEN [G1 EXCEPT !.Settings.ActiveIndex = IF @ - 1 < 0 THEN n - 1 ELSE @ - 1]
              ELSE G1
        change == keys \cap {"Left", "Right"} # {}
        G3 == IF change THEN ApplyProfile(G2) ELSE G2
    IN [g |-> G3, disk |-> IF change /\ ~G3.panic THEN SaveSettings(G3, D) ELSE D]

\* Variant of afterEscape that ignores the key.
afterEscapeIgnored(G, keys) == G

\* Escape selects the directory before the mode's own handler runs.
afterEscape(G, keys) ==
    IF "Escape" \in keys THEN [G EXCEPT !.Mode = ModeDirectory] ELSE G

Update(G, D, t, in) ==
    LET G1   == [G EXCEPT !.Tick = @ + 1]
        save == t - G1.LastSave > SaveInterval
        D1   == IF save THEN SaveStats(G1, D) ELSE D
        G2   == IF save THEN [G1 EXCEPT !.LastSave = t] ELSE G1
        G3   == IF G2.Tick % StatsPeriod = 0
                THEN [G2 EXCEPT !.Stats.TotalPlayTimeSec = @ + 1,
                                !.Stats.TodayPlayTimeSec = @ + 1]
                ELSE G2
        G4   == afterEscape(G3, in.keys)
    IN CASE G4.Mode = ModeDirectory -> [g |-> directoryKeys(G4, in.keys), disk |-> D1]
         [] G4.Mode = ModeSettings  -> settingsKeys(G4, D1, in.keys)
         [] G4.Mode = ModeFocus     -> [g |-> updateFocus(G4, in.keys, t), disk |-> D1]
         [] G4.Mode = ModeFishing   -> [g |-> updateFishing(G4, in), disk |-> D1]
         [] G4.Mode = ModePacman    -> [g |-> updatePacman(G4, in.keys), disk |-> D1]
         [] OTHER                   -> [g |-> G4, disk |-> D1]

\* Draw changes nothing; its settings screen reads Profiles[ActiveIndex].
Draw(G) ==
    IF ~G.panic /\ G.Mode = ModeSettings
       /\ G.Settings.ActiveIndex \notin 0..(Len(G.Settings.Profiles) - 1)
    THEN [G EXCEPT !.panic = TRUE]
    ELSE G

(***************************************************************************)
(* One frame of ebiten.RunGame: a tick of Update, then Draw.  W is the     *)
(* record [g, disk, now, just]; the frame takes dt seconds.                *)
(***************************************************************************)
Frame(W, in, dt) ==
    LET u == Update(W.g, W.disk, W.now + dt, in)
    IN [g |-> Draw(u.g), disk |-> u.disk, now |-> W.now + dt, just |-> in.keys]

(***************************************************************************)
(* Recorded play.  A run is the sequence of key sets just pressed in       *)
(* consecutive ticks (no key is just pressed in two ticks in a row); the   *)
(* states it passes through are computed with Frame, so every one of them  *)
(* is a state the program reaches.                                         *)
(***************************************************************************)
\* A tick with the given keys in which math/rand decides nothing.
Keys(keys) == [keys |-> keys, spot |-> 1, bite |-> FALSE, strength |-> 5, dt |-> 0]

\* A tick without input that comes dt seconds after the one before.
Wait(dt) == [keys |-> {}, spot |-> 1, bite |-> FALSE, strength |-> 5, dt |-> dt]

\* The state NewGame leaves, with the files D on disk, on the day date.
Boot(D, date) ==
    LET r == NewGame(D, 0, date)
    IN [g |-> r.g, disk |-> r.disk, now |-> 0, just |-> {}]

RECURSIVE Trace(_, _, _, _)
\* <<W after run[lo], W after run[lo..lo+1], ..., W after run[lo..hi]>>, lo <= hi
Trace(W, run, lo, hi) ==
    IF lo = hi THEN <<Frame(W, run[lo], run[lo].dt)>>
    ELSE LET mid == (lo + hi) \div 2
             a   == Trace(W, run, lo, mid)
             b   == Trace(a[Len(a)], run, mid + 1, hi)
         IN a \o b

\* Every state the run passes through, the first one included.
Replayed(W, run) ==
    LET t == Trace(W, run, 1, Len(run)) IN {W} \cup {t[i] : i \in 1..Len(t)}

\* The states the run passes through after its first lo frames.
ReplayedFrom(W, run, lo) ==
    LET t == Trace(W, run, 1, Len(run)) IN {t[i] : i \in lo..Len(t)}

\* Enter the maze with [4], then clear 80 dots around the slow ghost.
WinRunKeys ==
    <<
       {"4"}, {"Right"}, {"Left"}, {"Down"}, {}, {"Down"}, {}, {"Down"},
       {}, {"Down"}, {"Right"}, {}, {"Right"}, {}, {"Right"}, {},
       {"Right"}, {}, {"Right"}, {}, {"Right"}, {}, {"Right"}, {"Left"},
       {"Up"}, {}, {"Up"}, {"Left"}, {}, {"Left"}, {}, {"Left"},
       {}, {"Left"}, {"Down"}, {}, {"Down"}, {}, {"Down"}, {},
       {"Down"}, {"Right"}, {}, {"Right"}, {}, {"Right"}, {}, {"Right"},
       {}, {"Right"}, {}, {"Right"}, {}, {"Right"}, {}, {"Right"},
       {}, {"Right"}, {}, {"Right"}, {}, {"Right"}, {}, {"Right"},
       {}, {"Right"}, {"Up"}, {}, {"Up"}, {"Left"}, {}, {"Left"},
       {}, {"Left"}, {}, {"Left"}, {"Up"}, {}, {"Up"}, {"Left"},
       {}, {"Left"}, {}, {"Left"}, {}, {"Left"}, {}, {"Left"},
       {"Up"}, {}, {"Up"}, {"Right"}, {}, {"Right"}, {}, {"Right"},
       {}, {"Right"}, {}, {"Right"}, {"Down"}, {}, {"Down"}, {"Right"},
       {}, {"Right"}, {}, {"Right"}, {}, {"Right"}, {"Down"}, {},
       {"Down"}, {"Right"}, {}, {"Right"}, {"Up"}, {}, {"Up"}, {},
       {"Up"}, {}, {"Up"}, {"Left"}, {}, {"Left"}, {}, {"Left"},
       {}, {"Left"}, {"Down"}, {}, {"Down"}, {"Right"}, {}, {"Right"},
       {"Down"}, {}, {"Down"}, {"Right"}, {}, {"Right"}, {"Down"}, {},
       {"Down"}, {}, {"Down"}, {}, {"Down"}, {"Left"}, {}, {"Left"},
       {}, {"Left"}, {}, {"Left"}, {"Up"} >>

WinRun == [i \in 1..Len(WinRunKeys) |-> Keys(WinRunKeys[i])]

NoFiles == [stats |-> Missing, settings |-> Missing]

Today == "2026-11-02"
Yesterday == "2026-11-01"

(***************************************************************************)
(* Actions.                                                                *)
(***************************************************************************)
Chords(keys) == {c \in SUBSET keys : Cardinality(c) <= MaxChord}

\* One frame with input drawn from the given sets.  math/rand is asked for a
\* spot only when the spot timer runs out, for a bite only while waiting, for
\* a strength only on a bite; elsewhere one value stands for all.
Play(keys, dts, spots, bites, strengths) ==
    /\ pc = "running"
    /\ ~g.panic
    /\ budget > 0
    /\ \E c \in Chords(keys), dt \in dts,
          sp \in (IF g.Fishing.WaitTimer >= SpotPeriod THEN spots ELSE {1}),
          b \in (IF g.Fishing.State = 1 THEN bites ELSE {FALSE}) :
        \E st \in (IF b THEN strengths ELSE {5}) :
          /\ c \cap justPressed = {}
          /\ LET W == Frame([g |-> g, disk |-> disk, now |-> now, just |-> justPressed],
                            [keys |-> c, spot |-> sp, bite |-> b, strength |-> st,
                             dt |-> dt], dt)
             IN /\ g' = W.g
                /\ disk' = W.disk
                /\ now' = W.now
                /\ justPressed' = W.just
    /\ budget' = budget - 1
    /\ UNCHANGED <<today, pc>>

\* The window is closed: RunGame returns nil and main returns.
Exit ==
    /\ pc = "running"
    /\ ~g.panic
    /\ pc' = "exited"
    /\ UNCHANGED <<g, disk, now, today, justPressed, budget>>

StartAt(W) ==
    /\ g = W.g
    /\ disk = W.disk
    /\ now = W.now
    /\ justPressed = W.just
    /\ today = Today
    /\ pc = "running"
    /\ budget = MaxSteps

(***************************************************************************)
(* The chase mini-game: any state of the recorded rounds, then MaxSteps    *)
(* free frames of arrow and Space presses.                                 *)
(***************************************************************************)
PacmanKeys == {"Left", "Right", "Up", "Down", "Space"}

\* Thirteen wins earlier today: the ghost's cooldown is at its floor.
FastStats ==
    Json([name \in {"total_play_time", "today_play_time", "last_login_date",
                    "fish_caught", "pacman_wins_today"} |->
            CASE name = "total_play_time" -> 7
              [] name = "today_play_time" -> 3
              [] name = "last_login_date" -> Today
              [] name = "fish_caught" -> 2
              [] OTHER -> 13])

\* Enter the maze, walk down to the middle corridor and right until the fast
\* ghost stands in the next cell, then wait for its cooldown to run out.
MeetRunKeys ==
    << {"4"}, {"Down"}, {}, {"Down"}, {}, {"Down"}, {}, {"Down"}, {},
       {"Right"}, {}, {"Right"}, {}, {"Right"}, {}, {"Right"}, {}, {"Right"}, {},
       {}, {}, {}, {}, {} >>

MeetRun == [i \in 1..Len(MeetRunKeys) |-> Keys(MeetRunKeys[i])]

\* Enter the maze, leave the start cell to the right, clear 79 dots without
\* coming back to the start column, and return along the top row to (2,1):
\* the start cell (1,1) and the cell below it still hold their dots.
CornerRunKeys ==
    << {"4"}, {"Right"}, {}, {"Right"}, {}, {"Right"}, {}, {"Right"},
       {"Down"}, {}, {"Down"}, {"Left"}, {}, {"Left"}, {"Down"}, {},
       {"Down"}, {"Left"}, {}, {"Left"}, {"Up"}, {}, {"Up"}, {"Down"}, {},
       {"Down"}, {}, {"Down"}, {}, {"Down"}, {}, {"Down"}, {}, {"Down"},
       {"Right"}, {}, {"Right"}, {}, {"Right"}, {}, {"Right"}, {"Up"}, {},
       {"Up"}, {"Left"}, {}, {"Left"}, {"Up"}, {}, {"Up"}, {"Right"}, {},
       {"Right"}, {}, {"Right"}, {}, {"Right"}, {"Up"}, {}, {"Up"}, {"Left"},
       {"Right"}, {}, {"Right"}, {}, {"Right"}, {}, {"Right"}, {}, {"Right"},
       {}, {"Right"}, {}, {"Right"}, {}, {"Right"}, {}, {"Right"}, {},
       {"Right"}, {"Down"}, {}, {"Down"}, {"Left"}, {}, {"Left"}, {},
       {"Left"}, {}, {"Left"}, {}, {"Left"}, {"Right"}, {"Up"}, {}, {"Up"},
       {}, {"Up"}, {}, {"Up"}, {"Left"}, {}, {"Left"}, {}, {"Left"}, {},
       {"Left"}, {}, {"Left"}, {"Down"}, {}, {"Down"}, {}, {"Down"}, {},
       {"Down"}, {"Right"}, {"Left"}, {"Down"}, {}, {"Down"}, {"Left"},
       {"Right"}, {}, {"Right"}, {}, {"Right"}, {}, {"Right"}, {}, {"Right"},
       {}, {"Right"}, {}, {"Right"}, {}, {"Right"}, {}, {"Right"}, {},
       {"Right"}, {"Up"}, {}, {"Up"}, {"Right"}, {}, {"Right"}, {"Up"}, {},
       {"Up"}, {}, {"Up"}, {}, {"Up"}, {"Down"}, {}, {"Down"}, {}, {"Down"},
       {}, {"Down"}, {"Left"}, {}, {"Left"}, {"Up"}, {}, {"Up"}, {"Left"},
       {}, {"Left"}, {}, {"Left"}, {}, {"Left"}, {}, {"Left"}, {}, {"Left"},
       {}, {"Left"}, {}, {"Left"}, {}, {"Left"}, {}, {"Left"}, {}, {"Left"},
       {"Up"}, {}, {"Up"}, {"Left"}, {}, {"Left"}, {}, {"Left"}, {} >>

CornerRun == [i \in 1..Len(CornerRunKeys) |-> Keys(CornerRunKeys[i])]

\* Enter the maze, clear 78 dots away from the middle corridor, step onto
\* (7,5) for the 79th and wait there until the ghost has come to (8,5), a
\* cell that still holds its dot.
UnderGhostRunKeys ==
    << {"4"}, {"Right"}, {"Left"}, {"Down"}, {}, {"Down"}, {}, {"Down"}, {},
       {"Down"}, {"Right"}, {}, {"Right"}, {}, {"Right"}, {}, {"Right"}, {},
       {"Right"}, {"Left"}, {}, {"Left"}, {}, {"Left"}, {"Up"}, {}, {"Up"},
       {"Right"}, {}, {"Right"}, {}, {"Right"}, {}, {"Right"}, {}, {"Right"},
       {}, {"Right"}, {}, {"Right"}, {}, {"Right"}, {}, {"Right"}, {},
       {"Right"}, {}, {"Right"}, {}, {"Right"}, {}, {"Right"}, {"Down"}, {},
       {"Down"}, {"Left"}, {}, {"Left"}, {}, {"Left"}, {}, {"Left"}, {},
       {"Left"}, {"Right"}, {"Up"}, {}, {"Up"}, {}, {"Up"}, {}, {"Up"},
       {"Left"}, {}, {"Left"}, {}, {"Left"}, {}, {"Left"}, {}, {"Left"},
       {"Down"}, {}, {"Down"}, {}, {"Down"}, {"Up"}, {"Left"}, {}, {"Left"},
       {"Up"}, {}, {"Up"}, {"Left"}, {}, {"Left"}, {}, {"Left"}, {},
       {"Left"}, {"Down"}, {}, {"Down"}, {}, {"Down"}, {}, {"Down"}, {},
       {"Down"}, {}, {"Down"}, {}, {"Down"}, {}, {"Down"}, {"Right"}, {},
       {"Right"}, {}, {"Right"}, {}, {"Right"}, {"Up"}, {}, {"Up"}, {"Left"},
       {}, {"Left"}, {"Up"}, {"Down"}, {"Right"}, {}, {"Right"}, {},
       {"Right"}, {}, {"Right"}, {}, {"Right"}, {}, {"Right"}, {}, {"Right"},
       {}, {"Right"}, {}, {"Right"}, {}, {"Right"}, {}, {"Right"}, {},
       {"Right"}, {}, {"Right"}, {"Up"}, {}, {"Up"}, {"Right"}, {},
       {"Right"}, {"Up"}, {}, {"Up"}, {}, {"Up"}, {}, {"Up"}, {"Down"}, {},
       {"Down"}, {}, {"Down"}, {}, {"Down"}, {"Left"}, {}, {"Left"}, {},
       {"Left"}, {}, {"Left"}, {}, {"Left"}, {}, {"Left"}, {"Up"}, {},
       {"Up"}, {"Left"}, {}, {"Left"}, {}, {"Left"}, {}, {"Left"}, {},
       {"Left"}, {"Down"}, {}, {"Down"}, {}, {}, {}, {}, {}, {}, {}, {}, {},
       {}, {}, {}, {}, {}, {}, {}, {}, {}, {}, {}, {}, {}, {}, {}, {}, {},
       {}, {}, {}, {}, {}, {}, {}, {}, {}, {}, {}, {}, {}, {}, {}, {}, {},
       {}, {}, {}, {}, {} >>

UnderGhostRun == [i \in 1..Len(UnderGhostRunKeys) |-> Keys(UnderGhostRunKeys[i])]

PacmanInit ==
    \E W \in Replayed(Boot(NoFiles, Today), WinRun)
             \cup Replayed(Boot([stats |-> FastStats, settings |-> Missing], Today),
                           MeetRun)
             \cup ReplayedFrom(Boot(NoFiles, Today), CornerRun,
                               Len(CornerRun) - 1)
             \cup ReplayedFrom(Boot(NoFiles, Today), UnderGhostRun,
                               Len(UnderGhostRun) - 1) :
        StartAt(W)

PacmanFrame == Play(PacmanKeys, {0}, {1}, {FALSE}, {5})

PacmanNext == PacmanFrame

SpecPacman == PacmanInit /\ [][PacmanNext]_vars

(***************************************************************************)
(* Claims about the chase mini-game.                                       *)
(***************************************************************************)
Arrows == {"Left", "Right", "Up", "Down"}

Spawn == <<10, 5>>

PlayerCell(G) == <<G.Pacman.PlayerX, G.Pacman.PlayerY>>

GhostCell(G) == <<G.Pacman.GhostX, G.Pacman.GhostY>>

Manhattan(a, b) == Abs(a[1] - b[1]) + Abs(a[2] - b[2])

\* This step is an Update that ran the body of updatePacman on a live round.
LiveChaseUpdate ==
    /\ g.Mode = ModePacman
    /\ g'.Tick = g.Tick + 1
    /\ "Escape" \notin justPressed'
    /\ ~g.Pacman.GameOver
    /\ ~g.Pacman.Win

\* The player's cell before the first and after each of the four arrow tests.
PlayerCells(G, keys) ==
    LET G1 == IF "Left"  \in keys THEN movePlayer(G, -1, 0) ELSE G
        G2 == IF "Right" \in keys THEN movePlayer(G1, 1, 0) ELSE G1
        G3 == IF "Up"    \in keys THEN movePlayer(G2, 0, -1) ELSE G2
        G4 == IF "Down"  \in keys THEN movePlayer(G3, 0, 1) ELSE G3
    IN <<PlayerCell(G), PlayerCell(G1), PlayerCell(G2), PlayerCell(G3), PlayerCell(G4)>>

PlayerSteppedOnGhost(G, keys) ==
    LET c == PlayerCells(G, keys)
    IN \E i \in 2..5 : c[i] # c[i - 1] /\ c[i] = GhostCell(G)

\* C2: in a chase update in which the player steps onto the ghost's cell, or
\* the ghost steps onto the player's cell, GameOver is true when the update ends.
C2_CollisionEndsRound ==
    [][(LiveChaseUpdate
          /\ \/ PlayerSteppedOnGhost(g, justPressed')
             \/ (GhostCell(g') # GhostCell(g) /\ GhostCell(g') = PlayerCell(g')))
       => g'.Pacman.GameOver]_vars

\* C5: Win is set exactly when the score has reached the threshold of 80 dots.
C5_WinIffThreshold == g.Pacman.Win <=> (g.Pacman.Score >= WinScore)

\* C5 witness: the round was just won by eating the 80th dot.
C5_Witness == g.Pacman.Win /\ g.Pacman.Score = WinScore /\ budget < MaxSteps

\* C6: the pursuer stands on a non-wall cell in every reachable state.
C6_GhostOffWall == g.Pacman.Map[g.Pacman.GhostY][g.Pacman.GhostX] # Wall

\* C6 witness: after free play the ghost has left its spawn cell and stands
\* below a wall.
C6_Witness ==
    /\ budget < MaxSteps
    /\ GhostCell(g) # Spawn
    /\ g.Pacman.Map[g.Pacman.GhostY - 1][g.Pacman.GhostX] = Wall

\* C7: every Map index movePlayer or the ghost step can use lies inside the
\* 15x20 grid, no index panic has happened, and the player's cell is no wall.
C7_IndicesInGrid ==
    /\ ~g.panic
    /\ \A d \in {<<-1, 0>>, <<1, 0>>, <<0, -1>>, <<0, 1>>} :
          /\ InGrid(g.Pacman.PlayerX + d[1], g.Pacman.PlayerY + d[2])
          /\ InGrid(g.Pacman.GhostX + d[1], g.Pacman.GhostY + d[2])
    /\ g.Pacman.Map[g.Pacman.PlayerY][g.Pacman.PlayerX] # Wall

\* C7 witness: two arrows were pressed in one frame and the player stands in
\* the bottom-right corner of the maze, against the border wall.
C7_Witness ==
    /\ Cardinality(justPressed \cap Arrows) >= 2
    /\ g.Mode = ModePacman
    /\ g.Pacman.PlayerX = MapCols - 2
    /\ g.Pacman.PlayerY = LayoutRows - 2

\* C10: every executed ghost step brings the ghost exactly one cell closer
\* (Manhattan distance) to the player.
C10_GhostStepApproaches ==
    [][(LiveChaseUpdate /\ GhostCell(g') # GhostCell(g))
       => Manhattan(GhostCell(g'), PlayerCell(g'))
            = Manhattan(GhostCell(g), PlayerCell(g')) - 1]_vars

\* max(5, 30 - 2 * wins), written without the program's own operator.
DelayFor(wins) ==
    CHOOSE d \in MinDelay..BaseDelay :
        /\ d >= BaseDelay - 2 * wins
        /\ (d = MinDelay \/ d = BaseDelay - 2 * wins)

\* C11: the ghost's cooldown is always between 5 and 30 frames, in a round
\* that is not won it equals max(5, 30 - 2 * PacmanWinsToday), and it never
\* increases from one frame or round to the next.
C11_DelayScaling ==
    /\ [](/\ g.Pacman.GhostSpeedDelay \in MinDelay..BaseDelay
          /\ ~g.Pacman.Win
               => g.Pacman.GhostSpeedDelay = DelayFor(g.Stats.PacmanWinsToday))
    /\ [][g'.Pacman.GhostSpeedDelay <= g.Pacman.GhostSpeedDelay]_vars

\* C11 witness: a round was won and the next one started with Space, two
\* frames faster than the first round of the day.
C11_Witness ==
    /\ budget < MaxSteps
    /\ g.Stats.PacmanWinsToday = 1
    /\ ~g.Pacman.Win
    /\ g.Pacman.Score = 0
    /\ g.Pacman.GhostSpeedDelay = BaseDelay - 2

\* C21: the ghost attempts a move exactly once every GhostSpeedDelay chase
\* updates: an update attempts one (and clears the cooldown counter) exactly
\* when it is the GhostSpeedDelay-th update since the attempt before.
C21_GhostEveryDelayUpdates ==
    [][(LiveChaseUpdate /\ ~g'.panic)
       => (g'.Pacman.GhostMoveTimer = 0
             <=> g.Pacman.GhostMoveTimer + 1 = g.Pacman.GhostSpeedDelay)]_vars

\* C22: a won round adds exactly 1 to Stats.PacmanWinsToday, whichever
\* arrows are pressed in the winning frame, and nothing else raises it.
C22_OneWinPerRound ==
    [][/\ (LiveChaseUpdate /\ g'.Pacman.Win)
          => g'.Stats.PacmanWinsToday = g.Stats.PacmanWinsToday + 1
       /\ g'.Stats.PacmanWinsToday > g.Stats.PacmanWinsToday
          => (LiveChaseUpdate /\ g'.Pacman.Win)]_vars

\* C23: a round ends in exactly one outcome: Pacman.Win and Pacman.GameOver
\* are never both true.
C23_OneOutcome == ~(g.Pacman.Win /\ g.Pacman.GameOver)

\* The cells <<x, y>> of the map M that hold a dot.
DotCells(M) ==
    {c \in (0..(MapCols - 1)) \X (0..(MapRows - 1)) : M[c[2]][c[1]] = Dot}

\* The number of dots of the maze as InitPacman lays it out.
FreshDots == Cardinality(DotCells(InitPacman(ZeroGame(0)).Pacman.Map))

\* The cells the player stepped onto in an update with the given keys.
SteppedCells(G, keys) ==
    LET c == PlayerCells(G, keys)
    IN {c[i] : i \in {j \in 2..5 : c[j] # c[j - 1]}}

\* C25: the score plus the number of dots left in the map is always the
\* number of dots of the fresh maze; in a chase update the dots removed are
\* exactly those on the cells the player stepped onto, each adds one point,
\* and the ghost's step removes none.
C25_DotsAccount ==
    /\ [](~g.panic => g.Pacman.Score + Cardinality(DotCells(g.Pacman.Map)) = FreshDots)
    /\ [][(LiveChaseUpdate /\ ~g'.panic)
            => LET gone == DotCells(g.Pacman.Map) \ DotCells(g'.Pacman.Map)
               IN /\ gone = DotCells(g.Pacman.Map) \cap SteppedCells(g, justPressed')
                  /\ DotCells(g'.Pacman.Map) \subseteq DotCells(g.Pacman.Map)
                  /\ g'.Pacman.Score = g.Pacman.Score + Cardinality(gone)]_vars

\* C25 witness: the player has eaten dots, and the ghost has walked onto a
\* cell whose dot is still there.
C25_Witness ==
    /\ g.Mode = ModePacman
    /\ g.Pacman.Score > 0
    /\ GhostCell(g) # Spawn
    /\ g.Pacman.Map[g.Pacman.GhostY][g.Pacman.GhostX] = Dot
    /\ ~g.Pacman.GameOver

\* This step is an Update that ran updatePacman on an ended round.
EndedChaseUpdate ==
    /\ g.Mode = ModePacman
    /\ g'.Tick = g.Tick + 1
    /\ "Escape" \notin justPressed'
    /\ (g.Pacman.GameOver \/ g.Pacman.Win)

\* C26: an update of an ended round without Space leaves the round (player,
\* ghost, map, score, ghost timer) and the win counter as they are; with Space
\* it restarts the round: player at (1,1), ghost at (10,5), score 0, both
\* flags false, every dot back, the win counter untouched.
C26_EndedRoundFrozen ==
    [][EndedChaseUpdate
       => /\ g'.Stats.PacmanWinsToday = g.Stats.PacmanWinsToday
          /\ "Space" \notin justPressed' => g'.Pacman = g.Pacman
          /\ "Space" \in justPressed'
             => /\ PlayerCell(g') = <<1, 1>>
                /\ GhostCell(g') = Spawn
                /\ g'.Pacman.Score = 0
                /\ ~g'.Pacman.GameOver /\ ~g'.Pacman.Win
                /\ Cardinality(DotCells(g'.Pacman.Map)) = FreshDots
                /\ g'.Pacman.Map = InitPacman(ZeroGame(0)).Pacman.Map]_vars

\* C26 witness: a round won earlier in this session was restarted with Space
\* and arrows in one chord; the new round stands at its start.
C26_Witness ==
    /\ g.Mode = ModePacman
    /\ "Space" \in justPressed
    /\ justPressed \cap Arrows # {}
    /\ g.Stats.PacmanWinsToday \in {1, 2}
    /\ ~g.Pacman.Win /\ ~g.Pacman.GameOver
    /\ g.Pacman.Score = 0
    /\ PlayerCell(g) = <<1, 1>>

(***************************************************************************)
(* A round in which the player never moves: the maze was just entered     *)
(* with [4] (no win or thirteen wins earlier today) and updatePacman runs  *)
(* again and again without a key.  updatePacman does not touch Tick or the *)
(* play time, so the round's state is finite; weak fairness says that the  *)
(* updates keep running.                                                   *)
(***************************************************************************)
StillInit ==
    \E D \in {NoFiles, [stats |-> FastStats, settings |-> Missing]} :
        StartAt(Frame(Boot(D, Today), Keys({"4"}), 0))

StillUpdate ==
    /\ pc = "running"
    /\ ~g.panic
    /\ g.Mode = ModePacman
    /\ g' = updatePacman(g, {})
    /\ justPressed' = {}
    /\ UNCHANGED <<disk, now, today, pc, budget>>

StillNext == StillUpdate

SpecStill == StillInit /\ [][StillNext]_vars /\ WF_vars(StillUpdate)

\* The cell under the wall at which the ghost's step up is blocked.
StuckCell == <<5, 5>>

\* C24 as stated: if the player never moves and the updates keep running,
\* the ghost eventually reaches the player and the round ends with GameOver.
C24_GhostCatchesStillPlayer == <>(g.Pacman.GameOver)

\* C24 amended: if the player never moves and the updates keep running, the
\* ghost walks along the middle corridor to (5,5), where the cell it wants
\* to enter is a wall; from then on it stays there and the round never ends.
C24_GhostStopsAtWall ==
    /\ [](~g.Pacman.GameOver /\ PlayerCell(g) = <<1, 1>>)
    /\ <>[](/\ GhostCell(g) = StuckCell
            /\ g.Pacman.Map[StuckCell[2] - 1][StuckCell[1]] = Wall)

\* C24 witness: the ghost stands at (5,5) and its cooldown has run out there.
C24_Witness ==
    /\ GhostCell(g) = StuckCell
    /\ PlayerCell(g) = <<1, 1>>
    /\ g.Pacman.GhostMoveTimer = g.Pacman.GhostSpeedDelay
    /\ ~g.Pacman.GameOver

(***************************************************************************)
(* The fishing mini-game: any state of two recorded sessions (one reeling  *)
(* a weak fish in, one letting a strong fish run), then MaxSteps free      *)
(* frames; the window may be closed at any time.                           *)
(***************************************************************************)
FishingKeys == {"A", "S", "D", "Space"}

Strengths == {5, 9, 14}

\* Select fishing, cast at spot A and wait until the first hot spot is picked.
CastRun ==
    <<Keys({"3"}), Keys({"A"})>> \o [i \in 1..(SpotPeriod - 1) |-> Keys({})]

Bite(strength) ==
    [keys |-> {}, spot |-> 1, bite |-> TRUE, strength |-> strength, dt |-> 0]

\* A weak fish bites and Space is pressed every other frame, up to 93.0.
CatchRun ==
    CastRun \o <<Bite(5)>> \o [i \in 1..18 |-> Keys(IF i % 2 = 1 THEN {"Space"} ELSE {})]

\* A strong fish bites and the player does nothing, down to 0.6.
LoseRun == CastRun \o <<Bite(14)>> \o [i \in 1..21 |-> Keys({})]

\* The weakest fish bites and the player does nothing, down to 0.0.
WeakRun == CastRun \o <<Bite(5)>> \o [i \in 1..60 |-> Keys({})]

\* The sessions from the frame before the first hot spot is picked, and the
\* freshly started game.
FishingInit ==
    LET W0 == Boot([stats |-> FastStats, settings |-> Missing], Today)
    IN \E W \in {W0} \cup ReplayedFrom(W0, CatchRun, SpotPeriod)
                     \cup ReplayedFrom(W0, LoseRun, SpotPeriod)
                     \cup ReplayedFrom(W0, WeakRun, SpotPeriod + 2) :
          StartAt(W)

FishingFrame == Play(FishingKeys, {0, SaveInterval + 1}, 1..3, BOOLEAN, Strengths)

FishingNext == FishingFrame \/ Exit

SpecFishing == FishingInit /\ [][FishingNext]_vars

\* C1: Fishing.ReelProgress lies within [0,100] in every reachable state.
C1_ReelWithinBounds ==
    g.Fishing.ReelProgress >= 0 /\ g.Fishing.ReelProgress <= ReelFull

\* C4: when the process has exited, the stats file holds exactly the
\* in-memory counters.
C4_ExitSavesStats ==
    pc = "exited" => disk.stats = Json(Marshal(StatsTags, g.Stats))

Idle == 0

Waiting == 1

Reeling == 2

CastKeys == {"A", "S", "D"}

\* This step is an Update that ran updateFishing.
FishingUpdate ==
    /\ g.Mode = ModeFishing
    /\ g'.Tick = g.Tick + 1
    /\ "Escape" \notin justPressed'

\* C12 as stated: the fishing state changes only Idle -> Waiting,
\* Waiting -> Reeling and Reeling -> Idle.
C12_OnlyTheCycle ==
    [][g'.Fishing.State # g.Fishing.State
       => <<g.Fishing.State, g'.Fishing.State>>
            \in {<<Idle, Waiting>>, <<Waiting, Reeling>>, <<Reeling, Idle>>}]_vars

\* C12 amended: the fishing state changes only Idle -> Waiting on a cast key,
\* Waiting -> Reeling on a bite, Reeling -> Idle on a catch or a line break,
\* and Waiting -> Idle when Space withdraws the cast; Reeling is never entered
\* from Idle and Waiting never from Reeling.
C12_CycleOrWithdraw ==
    [][g'.Fishing.State # g.Fishing.State
       => /\ FishingUpdate
          /\ \/ /\ g.Fishing.State = Idle /\ g'.Fishing.State = Waiting
                /\ justPressed' \cap CastKeys # {}
             \/ /\ g.Fishing.State = Waiting /\ g'.Fishing.State = Reeling
                /\ "Space" \notin justPressed'
             \/ /\ g.Fishing.State = Waiting /\ g'.Fishing.State = Idle
                /\ "Space" \in justPressed'
             \/ /\ g.Fishing.State = Reeling /\ g'.Fishing.State = Idle
                /\ \/ g'.Fishing.ReelProgress >= ReelFull
                   \/ g'.Fishing.ReelProgress <= 0]_vars

\* C12 witness: a cast at spot A was withdrawn with Space before any bite.
C12_Witness ==
    /\ budget < MaxSteps
    /\ g.Mode = ModeFishing
    /\ "Space" \in justPressed
    /\ g.Fishing.State = Idle
    /\ g.Fishing.ActiveSpot = 1
    /\ g.Fishing.ReelProgress = 0

\* C13: a bite (Waiting -> Reeling, or the reel being armed) happens only in
\* an update after whose re-pick the cast spot equals the hot spot; while they
\* differ, and before the first hot spot is picked, Reeling is never entered.
C13_BiteOnlyAtHotSpot ==
    [][(/\ g.Fishing.State # Reeling
        /\ \/ g'.Fishing.State = Reeling
           \/ g'.Fishing.ReelProgress # g.Fishing.ReelProgress)
       => /\ FishingUpdate
          /\ g.Fishing.State = Waiting
          /\ g'.Fishing.TargetSpot \in 1..3
          /\ g'.Fishing.ActiveSpot = g'.Fishing.TargetSpot
          /\ g'.Fishing.ActiveSpot = g.Fishing.ActiveSpot]_vars

\* C13 witness: the hot spot was re-picked and the fish bit in the same update.
C13_Witness ==
    /\ budget < MaxSteps
    /\ g.Fishing.State = Reeling
    /\ g.Fishing.WaitTimer = 0
    /\ g.Fishing.ReelProgress = BiteProgress
    /\ g.Fishing.ActiveSpot = g.Fishing.TargetSpot

\* C14: a reeling update that ends at 100 or more adds exactly one to
\* Fishing.Score and to Stats.FishCaught and returns to Idle; one that ends at
\* 0 or less returns to Idle with both unchanged; nothing else changes either
\* counter, so FishCaught - Score stays constant.
C14_CatchCountsOnce ==
    [][/\ (FishingUpdate /\ g.Fishing.State = Reeling
            /\ g'.Fishing.ReelProgress >= ReelFull)
          => /\ g'.Fishing.Score = g.Fishing.Score + 1
             /\ g'.Stats.FishCaught = g.Stats.FishCaught + 1
             /\ g'.Fishing.State = Idle
       /\ (FishingUpdate /\ g.Fishing.State = Reeling
            /\ g'.Fishing.ReelProgress <= 0)
          => /\ g'.Fishing.Score = g.Fishing.Score
             /\ g'.Stats.FishCaught = g.Stats.FishCaught
             /\ g'.Fishing.State = Idle
       /\ (g'.Fishing.Score # g.Fishing.Score
            \/ g'.Stats.FishCaught # g.Stats.FishCaught)
          => /\ FishingUpdate
             /\ g.Fishing.State = Reeling
             /\ g'.Fishing.ReelProgress >= ReelFull
       /\ g'.Stats.FishCaught - g'.Fishing.Score
            = g.Stats.FishCaught - g.Fishing.Score]_vars

\* C14 witness: the first fish of the session was landed in free play.
C14_Witness ==
    /\ budget < MaxSteps
    /\ g.Fishing.State = Idle
    /\ g.Fishing.ReelProgress >= ReelFull
    /\ g.Fishing.Score = 1
    /\ g.Stats.FishCaught = 3

\* The least FishStrength, 0.5 + rand.Float64(), in tenths.
MinStrength == 5

\* The most updates an untouched reel can take: 30 / 0.5.
MaxReelUpdates == BiteProgress \div MinStrength

RECURSIVE EndsWithin(_, _, _)
\* At most k more fishing updates without a key bring G from Reeling to Idle,
\* with the scores of G0.
EndsWithin(G, G0, k) ==
    IF G.Fishing.State = Idle
    THEN /\ G.Fishing.Score = G0.Fishing.Score
         /\ G.Stats.FishCaught = G0.Stats.FishCaught
    ELSE IF k = 0 \/ G.Fishing.State # Reeling THEN FALSE
    ELSE EndsWithin(updateFishing(G, Keys({})), G0, k - 1)

\* C27: a bite arms the reel with progress 30 and a drain of at least 0.5 per
\* update, and from the bite (or any reeling state with no more progress),
\* at most 60 fishing updates without Space bring the state back to Idle,
\* with Fishing.Score and Stats.FishCaught as they were.
C27_UntouchedReelEnds ==
    /\ [][(FishingUpdate /\ g.Fishing.State = Waiting
             /\ g'.Fishing.ReelProgress # g.Fishing.ReelProgress)
           => /\ g'.Fishing.ReelProgress = BiteProgress
              /\ g'.Fishing.FishStrength >= MinStrength]_vars
    /\ []((g.Fishing.State = Reeling /\ g.Fishing.ReelProgress <= BiteProgress)
            => EndsWithin(g, g, MaxReelUpdates))

\* C27 witness: the weakest fish was left alone for all of the 60 updates and
\* the line has just come back empty.
C27_Witness ==
    /\ g.Mode = ModeFishing
    /\ g.Fishing.State = Idle
    /\ g.Fishing.ReelProgress = 0
    /\ g.Fishing.FishStrength = MinStrength
    /\ g.Fishing.Score = 0
    /\ g.Tick = Len(WeakRun)

(***************************************************************************)
(* Startup: NewGame over the files found on disk, then MaxSteps free       *)
(* frames in the directory and on the settings screen, then exit.          *)
(***************************************************************************)
StatsDoc(total, day, date, fish, wins) ==
    Json([name \in {"total_play_time", "today_play_time", "last_login_date",
                    "fish_caught", "pacman_wins_today"} |->
            CASE name = "total_play_time" -> total
              [] name = "today_play_time" -> day
              [] name = "last_login_date" -> date
              [] name = "fish_caught" -> fish
              [] OTHER -> wins])

SettingsDoc(index, profiles) ==
    Json([name \in {"active_profile_index", "profiles"} |->
            IF name = "profiles" THEN profiles ELSE index])

\* Stats files a previous session (or an editor) can have left behind.
StatsFiles ==
    {Missing, Corrupt, Json([last_login_date |-> Today])}
    \cup {StatsDoc(7, 3, date, 2, wins) : date \in {Yesterday, Today}, wins \in {0, 1}}

\* Settings files: none, garbage, the three profiles with any index a file
\* can hold, a file without profiles, a file with an empty profile list.
SettingsFiles ==
    {Missing, Corrupt, Json([active_profile_index |-> 1]), SettingsDoc(0, << >>)}
    \cup {SettingsDoc(i, DefaultProfiles) : i \in {-1, 0, 2, 3}}

StartupInit ==
    /\ g = ZeroGame(0)
    /\ disk \in [stats : StatsFiles, settings : SettingsFiles]
    /\ now = 0
    /\ today = Today
    /\ pc = "start"
    /\ justPressed = {}
    /\ budget = MaxSteps

\* main: NewGame() builds the game that RunGame then drives.
Start ==
    /\ pc = "start"
    /\ LET r == NewGame(disk, now, today)
       IN g' = r.g /\ disk' = r.disk
    /\ pc' = "running"
    /\ UNCHANGED <<now, today, justPressed, budget>>

StartupKeys == {"S", "Left", "Right", "Escape"}

StartupFrame == Play(StartupKeys, {0}, {1}, {FALSE}, {5})

StartupNext == Start \/ StartupFrame \/ Exit

SpecStartup == StartupInit /\ [][StartupNext]_vars

\* What a file holds for a field, the field's zero value when it holds nothing.
Stored(file, name, zero) ==
    IF file.kind = "json" /\ name \in DOMAIN file.doc THEN file.doc[name] ELSE zero

Unreadable(file) == file.kind \in {"missing", "corrupt"}

\* C3: when a persisted file is missing or is not JSON, NewGame finishes
\* without a crash, with the compiled-in defaults for that file.
C3_BadFilesFallBack ==
    [][(pc = "start" /\ pc' = "running" /\ (Unreadable(disk.stats) \/ Unreadable(disk.settings)))
       => /\ ~g'.panic
          /\ Unreadable(disk.settings) => g'.Settings = DefaultSettings
          /\ Unreadable(disk.stats) =>
                g'.Stats = [TotalPlayTimeSec |-> 0, TodayPlayTimeSec |-> 0,
                            LastLoginDate |-> today, FishCaught |-> 0,
                            PacmanWinsToday |-> 0]]_vars

\* C9: LoadData resets TodayPlayTimeSec and PacmanWinsToday and sets
\* LastLoginDate exactly when the stored date differs from today's date;
\* TotalPlayTimeSec and FishCaught always keep their stored values.
C9_DailyReset ==
    [][(pc = "start" /\ pc' = "running")
       => LET stale == Stored(disk.stats, "last_login_date", "") # today
          IN /\ g'.Stats.TotalPlayTimeSec = Stored(disk.stats, "total_play_time", 0)
             /\ g'.Stats.FishCaught = Stored(disk.stats, "fish_caught", 0)
             /\ g'.Stats.LastLoginDate = today
             /\ g'.Stats.TodayPlayTimeSec =
                   IF stale THEN 0 ELSE Stored(disk.stats, "today_play_time", 0)
             /\ g'.Stats.PacmanWinsToday =
                   IF stale THEN 0 ELSE Stored(disk.stats, "pacman_wins_today", 0)]_vars

\* C9 witness: yesterday's file with non-zero daily counters was loaded and
\* the daily counters were reset while the totals survived.
C9_Witness ==
    /\ pc = "running"
    /\ Stored(disk.stats, "last_login_date", "") = Yesterday
    /\ Stored(disk.stats, "today_play_time", 0) > 0
    /\ Stored(disk.stats, "pacman_wins_today", 0) > 0
    /\ g.Stats.TodayPlayTimeSec = 0
    /\ g.Stats.PacmanWinsToday = 0
    /\ g.Stats.TotalPlayTimeSec = Stored(disk.stats, "total_play_time", 0)
    /\ g.Stats.TotalPlayTimeSec > 0

\* C29: after startup with a settings file that parses, and after any
\* sequence of Left and Right on the settings screen, Settings.ActiveIndex is
\* an index into Settings.Profiles and no frame has crashed on drawing it.
C29_ActiveIndexValid ==
    (pc # "start" /\ disk.settings.kind = "json")
    => /\ ~g.panic
       /\ g.Settings.ActiveIndex \in 0..(Len(g.Settings.Profiles) - 1)

(***************************************************************************)
(* The focus timer: any state of a recorded session that lowers the target *)
(* to its floor and starts the countdown, then MaxSteps free frames of     *)
(* any length.                                                             *)
(***************************************************************************)
FocusKeys == {"Up", "Down", "Space", "3", "4"}

\* Seconds a frame can take: a normal tick, a second, a stalled window.
FocusDts == {0, 1, 280}

\* Select the timer, press Down five times, start the countdown.
FocusRunKeys ==
    << {"2"}, {"Down"}, {}, {"Down"}, {}, {"Down"}, {}, {"Down"}, {}, {"Down"}, {},
       {"Space"}, {} >>

FocusRun == [i \in 1..Len(FocusRunKeys) |-> Keys(FocusRunKeys[i])]

FocusInit == \E W \in Replayed(Boot(NoFiles, Today), FocusRun) : StartAt(W)

FocusFrame == Play(FocusKeys, FocusDts, {1}, {FALSE}, {5})

FocusNext == FocusFrame

SpecFocus == FocusInit /\ [][FocusNext]_vars

\* C8: Timer.TargetMinutes is at least 5 in every reachable state, is 25 in a
\* fresh game, and changes only by 5 and only while the timer is not active.
C8_TargetMinutesFloor ==
    /\ [](g.Timer.TargetMinutes >= 5 /\ (g.Tick = 0 => g.Timer.TargetMinutes = 25))
    /\ [][g'.Timer.TargetMinutes # g.Timer.TargetMinutes
            => /\ ~g.Timer.Active
               /\ Abs(g'.Timer.TargetMinutes - g.Timer.TargetMinutes) = 5]_vars

\* C8 witness: Down was just pressed in focus mode and the target stands at
\* the floor of 5 minutes.
C8_Witness ==
    /\ g.Mode = ModeFocus
    /\ "Down" \in justPressed
    /\ budget < MaxSteps
    /\ g.Timer.TargetMinutes = 5

(***************************************************************************)
(* The mode selector: any state of a tour through the six screens (with    *)
(* the countdown run down to its finished screen), then MaxSteps free      *)
(* frames of Escape and menu keys.                                         *)
(***************************************************************************)
Digits == {"1", "2", "3", "4"}

MenuKeys == Digits \cup {"S"}

ModeKeys == MenuKeys \cup {"Escape"}

\* Relax, the timer (started and left to run out), fishing with a cast, the
\* maze, the settings, each left again with Escape.
TourRun ==
    << Keys({"1"}), Keys({"Escape"}), Keys({"2"}), Keys({"Space"}),
       Wait(StartMinutes * SecondsPerMinute), Keys({"Escape"}),
       Keys({"3"}), Keys({"A"}), Keys({"Escape"}), Keys({"4"}), Keys({"Right"}),
       Keys({"Escape"}), Keys({"S"}), Keys({"Right"}), Keys({"Escape"}) >>

ModesInit == \E W \in Replayed(Boot(NoFiles, Today), TourRun) : StartAt(W)

ModesFrame == Play(ModeKeys, {0}, {1}, {FALSE}, {5})

ModesNext == ModesFrame

SpecModes == ModesInit /\ [][ModesNext]_vars

\* The mode a digit key stands for.
ModeOf(key) ==
    CASE key = "1" -> ModeRelax
      [] key = "2" -> ModeFocus
      [] key = "3" -> ModeFishing
      [] key = "4" -> ModePacman

\* The mode the directory ends in when the given menu keys are pressed
\* together: the later test wins.
MenuMode(keys) ==
    CASE "S" \in keys -> ModeSettings
      [] "S" \notin keys /\ "4" \in keys -> ModePacman
      [] keys \cap {"S", "4"} = {} /\ "3" \in keys -> ModeFishing
      [] keys \cap {"S", "4", "3"} = {} /\ "2" \in keys -> ModeFocus
      [] keys \cap MenuKeys = {"1"} -> ModeRelax

\* This step is an Update.
IsUpdate == g'.Tick = g.Tick + 1

\* C15 as stated: an update in which Escape is just pressed ends in the
\* directory, whatever else is pressed.
C15_EscapeAlwaysDirectory ==
    [][(IsUpdate /\ "Escape" \in justPressed') => g'.Mode = ModeDirectory]_vars

\* C15 amended: an update in which Escape is just pressed ends in the
\* directory, from every mode, unless a menu key (1, 2, 3, 4, S) is just
\* pressed in the same frame; then it ends in the mode of that key.
C15_EscapeThenMenu ==
    [][(IsUpdate /\ "Escape" \in justPressed')
       => g'.Mode = IF justPressed' \cap MenuKeys = {} THEN ModeDirectory
                    ELSE MenuMode(justPressed')]_vars

\* C15 witness: Escape alone was just pressed on the settings screen.
C15_Witness ==
    /\ budget < MaxSteps
    /\ justPressed = {"Escape"}
    /\ g.Mode = ModeDirectory
    /\ g.Settings.ActiveIndex = 1
    /\ g.Tick = Len(TourRun)

\* C16 as stated: in every mode, an update in which exactly one digit key is
\* just pressed ends in that key's mode.
C16_DigitAlwaysSelects ==
    [][(IsUpdate /\ Cardinality(justPressed' \cap Digits) = 1)
       => \E d \in justPressed' \cap Digits : g'.Mode = ModeOf(d)]_vars

\* The update starts in the directory or Escape takes it there.
AtMenu == g.Mode = ModeDirectory \/ "Escape" \in justPressed'

\* The update runs the finished screen of the focus timer.
AtFinishedTimer == ~AtMenu /\ g.Mode = ModeFocus /\ g.Timer.GopherState = 2

\* C16 amended: mode selection is guarded by the current mode.  An update
\* with exactly one digit key just pressed ends in that key's mode when it
\* starts in the directory or Escape is just pressed too (in Settings if S is
\* pressed as well); on the finished focus timer 3 and 4 select their modes
\* and 1 and 2 do nothing; in every other case the mode does not change.
C16_DigitSelectsAtMenu ==
    [][(IsUpdate /\ Cardinality(justPressed' \cap Digits) = 1)
       => LET d == CHOOSE k \in justPressed' \cap Digits : TRUE
          IN g'.Mode = CASE AtMenu /\ "S" \notin justPressed' -> ModeOf(d)
                         [] AtMenu /\ "S" \in justPressed' -> ModeSettings
                         [] AtFinishedTimer /\ d \in {"3", "4"} -> ModeOf(d)
                         [] OTHER -> g.Mode]_vars

\* C16 witness: [2] was just pressed on the relax screen, which stays.
C16_Witness ==
    /\ budget < MaxSteps
    /\ justPressed = {"2"}
    /\ g.Mode = ModeRelax

(***************************************************************************)
(* The countdown: any state of a session that starts the 25-minute timer,  *)
(* leaves it for the directory and comes back, then MaxSteps free frames   *)
(* that take no time, a second, or longer than the whole countdown.        *)
(***************************************************************************)
TimerKeys == {"Space", "Escape", "2"}

TimerDts == {0, 1, (StartMinutes + 1) * SecondsPerMinute}

TimerRun ==
    << Keys({"2"}), Keys({"Space"}), Keys({}), Wait(1), Keys({"Escape"}),
       Wait(2), Keys({"2"}), Keys({}) >>

TimerInit == \E W \in Replayed(Boot(NoFiles, Today), TimerRun) : StartAt(W)

TimerFrame == Play(TimerKeys, TimerDts, {1}, {FALSE}, {5})

TimerNext == TimerFrame

SpecTimer == TimerInit /\ [][TimerNext]_vars

Floor0(n) == IF n < 0 THEN 0 ELSE n

\* The countdown is running: started and not yet at its finished screen.
Counting == g.Timer.Active /\ g.Timer.GopherState # 2

\* This step is an Update that ran updateFocus.
FocusUpdate ==
    /\ IsUpdate
    /\ g.Mode = ModeFocus
    /\ "Escape" \notin justPressed'

\* C17 as stated: while the countdown is running, every frame, in whatever
\* mode, reduces TimeLeft by the time elapsed since the previous frame.
C17_EveryFrameCounts ==
    [][(IsUpdate /\ Counting)
       => g'.Timer.TimeLeft = Floor0(g.Timer.TimeLeft - (now' - now))]_vars

\* C17 amended: the countdown starts at the target duration; while it is
\* running, every frame of the focus mode reduces TimeLeft by the time
\* elapsed since the previous focus frame (LastTick), floored at 0, so that
\* TimeLeft is the target minus the time since the start at the end of every
\* focus frame; a frame of another mode leaves the timer as it is.
C17_FocusFramesCount ==
    [][/\ (~g.Timer.Active /\ g'.Timer.Active)
          => /\ FocusUpdate
             /\ g'.Timer.LastTick = now'
             /\ g'.Timer.TimeLeft = g'.Timer.TargetMinutes * SecondsPerMinute
       /\ (FocusUpdate /\ Counting)
          => /\ g'.Timer.LastTick = now'
             /\ g'.Timer.TimeLeft
                  = Floor0(g.Timer.TimeLeft - (now' - g.Timer.LastTick))
       /\ (IsUpdate /\ ~FocusUpdate) => g'.Timer = g.Timer]_vars

\* C17 witness: back on the focus screen after three seconds in the
\* directory, the countdown has caught up with the clock.
C17_Witness ==
    /\ budget < MaxSteps
    /\ g.Mode = ModeFocus
    /\ g.Timer.Active
    /\ now >= 3
    /\ g.Timer.LastTick = now
    /\ g.Timer.TimeLeft = StartMinutes * SecondsPerMinute - now
    /\ g.Timer.TimeLeft > 0

\* C18: TimeLeft is never negative when an update has ended, whatever time
\* passed between two frames, and is exactly 0 on the finished screen and
\* after every frame that ran the countdown out.
C18_TimeLeftNotNegative ==
    /\ [](/\ g.Timer.TimeLeft >= 0
          /\ g.Timer.GopherState = 2 => g.Timer.TimeLeft = 0)
    /\ [][(FocusUpdate /\ Counting
            /\ g.Timer.TimeLeft - (now' - g.Timer.LastTick) <= 0)
          => g'.Timer.TimeLeft = 0 /\ g'.Timer.GopherState = 2]_vars

\* C18 witness: one frame took longer than the whole countdown.
C18_Witness ==
    /\ budget < MaxSteps
    /\ g.Timer.GopherState = 2
    /\ g.Timer.TimeLeft = 0
    /\ now - g.Timer.LastTick = 0
    /\ now > StartMinutes * SecondsPerMinute

(***************************************************************************)
(* The finished screen: any state of a session that lets the countdown run *)
(* out, leaves the finished screen for the directory and comes back, then  *)
(* MaxSteps free frames.                                                   *)
(***************************************************************************)
FinishedKeys == {"Space", "3", "4", "2", "Escape"}

FinishedDts == {0, 1}

FinishedRun ==
    << Keys({"2"}), Keys({"Space"}), Wait(StartMinutes * SecondsPerMinute + 1),
       Keys({}), Keys({"Escape"}), Keys({"2"}) >>

FinishedInit == \E W \in Replayed(Boot(NoFiles, Today), FinishedRun) : StartAt(W)

FinishedFrame == Play(FinishedKeys, FinishedDts, {1}, {FALSE}, {5})

FinishedNext == FinishedFrame

SpecFinished == FinishedInit /\ [][FinishedNext]_vars

\* The keys that dismiss the finished screen.
DismissKeys == {"Space", "3", "4"}

\* C28: while the timer is finished (GopherState 2) TimeLeft is 0; the timer
\* leaves that state only in an update of the focus mode with Space, 3 or 4
\* just pressed, every such update leaves it, and the timer is idle afterwards
\* (Active false, GopherState 0): the dismissing update starts no countdown.
C28_FinishedUntilDismissed ==
    /\ [](g.Timer.GopherState = 2 => g.Timer.TimeLeft = 0)
    /\ [][g.Timer.GopherState = 2
            => /\ g'.Timer.GopherState # 2
                  <=> (FocusUpdate /\ justPressed' \cap DismissKeys # {})
               /\ g'.Timer.GopherState # 2
                  => /\ g'.Timer.GopherState = 0
                     /\ ~g'.Timer.Active
                     /\ g'.Timer.TimeLeft = 0
                     /\ g'.Timer.LastTick = g.Timer.LastTick]_vars

\* C28 witness: Space has just dismissed the finished screen; the timer is
\* idle and still shows 0.
C28_Witness ==
    /\ g.Mode = ModeFocus
    /\ justPressed = {"Space"}
    /\ g.Timer.GopherState = 0
    /\ ~g.Timer.Active
    /\ g.Timer.TimeLeft = 0

(***************************************************************************)
(* Persistence across two runs of the program: any state of a session      *)
(* that sits in the directory past the first minute of play time or        *)
(* changes the colour profile, MaxSteps free frames, then one of the two   *)
(* save methods writes its file, the process ends, and the program is      *)
(* started again on the same or on the next day.                           *)
(***************************************************************************)
Tomorrow == "2026-11-03"

RoundTripKeys == {"S", "Left", "Right", "Escape"}

\* Wait in the directory until Tick reaches 60 and a second of play time is
\* counted.
IdleRun == [i \in 1..(StatsPeriod + 1) |-> Keys({})]

\* Open the settings and step back from the first profile to the last.
SettingsRun == << Keys({"S"}), Keys({"Left"}), Keys({}) >>

RoundTripInit ==
    LET W0 == Boot([stats |-> FastStats, settings |-> Missing], Today)
    IN \E W \in ReplayedFrom(W0, IdleRun, StatsPeriod - 2)
                 \cup Replayed(W0, SettingsRun) :
          StartAt(W)

RoundTripFrame == Play(RoundTripKeys, {0, SaveInterval + 1}, {1}, {FALSE}, {5})

\* SaveStats writes the stats file, and the process ends before another tick.
SaveStatsThenQuit ==
    /\ pc = "running"
    /\ ~g.panic
    /\ disk' = SaveStats(g, disk)
    /\ pc' = "stats_saved"
    /\ UNCHANGED <<g, now, today, justPressed, budget>>

\* SaveSettings writes the settings file, and the process ends.
SaveSettingsThenQuit ==
    /\ pc = "running"
    /\ ~g.panic
    /\ disk' = SaveSettings(g, disk)
    /\ pc' = "settings_saved"
    /\ UNCHANGED <<g, now, today, justPressed, budget>>

\* The program is started again: NewGame runs LoadData on the files.
Relaunch ==
    /\ pc \in {"stats_saved", "settings_saved"}
    /\ \E date \in {Today, Tomorrow} :
          /\ today' = date
          /\ LET r == NewGame(disk, now, date)
             IN g' = r.g /\ disk' = r.disk
    /\ pc' = "reloaded"
    /\ justPressed' = {}
    /\ UNCHANGED <<now, budget>>

RoundTripNext ==
    \/ RoundTripFrame
    \/ SaveStatsThenQuit
    \/ SaveSettingsThenQuit
    \/ Relaunch

SpecRoundTrip == RoundTripInit /\ [][RoundTripNext]_vars

ProtoModeRelax == 0

ModeMusic == 3

BeatPeriod == 8000

BeatFrames == 10

StartFreq == 440

RestY == 140

BeatY == 150

SwingY == 130

notes == <<220, 261, 329, 392, 440, 523>>

\* s.tick++
tickStream(S) == [S EXCEPT !.tick = @ + 1]

\* s.freq = notes[rand.Intn(len(notes))]
setFreq(S, n) == [S EXCEPT !.freq = notes[n]]

\* s.beat = 10
setBeat(S) == [S EXCEPT !.beat = BeatFrames]

\* if s.beat > 0 { s.beat-- }
decayBeat(S) == IF S.beat > 0 THEN [S EXCEPT !.beat = @ - 1] ELSE S

\* One turn of Read's loop, run alone.
Sample(S, n) ==
    LET S1 == tickStream(S)
    IN decayBeat(IF S1.tick % BeatPeriod = 0 THEN setBeat(setFreq(S1, n)) ELSE S1)

RECURSIVE Samples(_, _)
\* The stream after k turns of Read's loop.
Samples(S, k) ==
    IF k = 0 \/ S.tick < 0 THEN S
    ELSE IF k = 1 THEN Sample(S, 1)
    ELSE Samples(Samples(S, k \div 2), k - (k \div 2))

\* &ChiptuneStream{freq: 440}
NewStream == [tick |-> 0, freq |-> StartFreq, vol |-> 0, beat |-> 0]

\* NewGame of the prototype: relax mode, the player not started.
NewProtoGame ==
    [Mode |-> ProtoModeRelax, Tick |-> 0, PandaY |-> RestY, Player |-> "paused",
     Stream |-> NewStream]

\* The tests of keys 1 and 4 at the top of Update.
protoKeys(G, keys) ==
    LET G1 == IF "1" \in keys
              THEN [G EXCEPT !.Mode = ProtoModeRelax, !.Player = "paused"] ELSE G
    IN IF "4" \in keys THEN [G1 EXCEPT !.Mode = ModeMusic, !.Player = "playing"]
       ELSE G1

\* The game is new, or [4] was pressed in the first frame and the player has
\* run Read up to two samples before the first beat.
AudioInit ==
    /\ \/ /\ g = NewProtoGame
          /\ pc = [main |-> "update", audio |-> "tick"]
          /\ justPressed = {}
       \/ /\ g = [protoKeys([NewProtoGame EXCEPT !.Tick = 1], {"4"})
                    EXCEPT !.Stream = Samples(NewStream, BeatPeriod - 2)]
          /\ pc = [main |-> "read_beat", audio |-> "tick"]
          /\ justPressed = {"4"}
    /\ disk = NoFiles
    /\ now = 0
    /\ today = Today
    /\ budget = MaxSamples

\* Update up to its switch: the tick, the mode keys, the relax animation.
MainKeys ==
    /\ pc.main = "update"
    /\ g.Tick < MaxFrames
    /\ \E c \in Chords({"1", "4"}) :
          /\ c \cap justPressed = {}
          /\ justPressed' = c
          /\ LET G1 == protoKeys([g EXCEPT !.Tick = @ + 1], c)
             IN /\ g' = IF G1.Mode = ProtoModeRelax
                         THEN [G1 EXCEPT !.PandaY = RestY] ELSE G1
                /\ pc' = [pc EXCEPT !.main = IF G1.Mode = ModeMusic
                                              THEN "read_beat" ELSE "draw"]
    /\ UNCHANGED <<disk, now, today, budget>>

\* The audio goroutine stands at a write of s.beat.
WritingBeat == pc.audio = "beat" \/ (pc.audio = "decay" /\ g.Stream.beat > 0)

\* What an unsynchronised read of s.beat can return: the value in memory,
\* or the one the audio goroutine is writing at the same time.
BeatSeen ==
    {g.Stream.beat}
      \cup (IF pc.audio = "beat" THEN {BeatFrames} ELSE {})
      \cup (IF pc.audio = "decay" /\ g.Stream.beat > 0
            THEN {g.Stream.beat - 1} ELSE {})

\* case ModeMusic of Update: if g.Stream.beat > 0 ...
MainReadBeat ==
    /\ pc.main = "read_beat"
    /\ \E b \in BeatSeen :
          g' = [g EXCEPT !.PandaY = IF b > 0 THEN BeatY ELSE SwingY]
    /\ pc' = [pc EXCEPT !.main = "draw"]
    /\ UNCHANGED <<disk, now, today, justPressed, budget>>

\* Draw: in music mode it reads g.Stream.freq for the two bars.
MainDraw ==
    /\ pc.main = "draw"
    /\ pc' = [pc EXCEPT !.main = "update"]
    /\ UNCHANGED <<g, disk, now, today, justPressed, budget>>

\* Read, one sample: s.tick++ and the test of the beat period.
AudioTick ==
    /\ pc.audio = "tick"
    /\ g.Player = "playing"
    /\ budget > 0
    /\ g' = [g EXCEPT !.Stream = tickStream(@)]
    /\ pc' = [pc EXCEPT !.audio = IF g'.Stream.tick % BeatPeriod = 0
                                   THEN "freq" ELSE "decay"]
    /\ budget' = budget - 1
    /\ UNCHANGED <<disk, now, today, justPressed>>

AudioFreq ==
    /\ pc.audio = "freq"
    /\ \E n \in 1..Len(notes) : g' = [g EXCEPT !.Stream = setFreq(@, n)]
    /\ pc' = [pc EXCEPT !.audio = "beat"]
    /\ UNCHANGED <<disk, now, today, justPressed, budget>>

AudioBeat ==
    /\ pc.audio = "beat"
    /\ g' = [g EXCEPT !.Stream = setBeat(@)]
    /\ pc' = [pc EXCEPT !.audio = "decay"]
    /\ UNCHANGED <<disk, now, today, justPressed, budget>>

AudioDecay ==
    /\ pc.audio = "decay"
    /\ g' = [g EXCEPT !.Stream = decayBeat(@)]
    /\ pc' = [pc EXCEPT !.audio = "tick"]
    /\ UNCHANGED <<disk, now, today, justPressed, budget>>

AudioNext ==
    \/ MainKeys
    \/ MainReadBeat
    \/ MainDraw
    \/ AudioTick
    \/ AudioFreq
    \/ AudioBeat
    \/ AudioDecay

SpecAudio == AudioInit /\ [][AudioNext]_vars

\* The update/draw loop stands at a read of a stream field that the audio
\* goroutine is about to write.
StreamRace ==
    \/ pc.main = "read_beat" /\ WritingBeat
    \/ pc.main = "draw" /\ g.Mode = ModeMusic /\ pc.audio = "freq"

\* C19: no game state is mutated concurrently: the update/draw loop never
\* stands at a read of beat or freq while another goroutine writes it.
C19_NoConcurrentMutation == ~StreamRace

====
